---- MODULE Spec2Model ----
(***************************************************************************)
(* External process execution of the GitOps extension                      *)
(* (src/src/cli/shell/exec.ts): exec / execWithOutput launch a command     *)
(* through shelljs.exec, setExecTimeoutKill arms the SIGTERM / SIGKILL     *)
(* timers, the data / exit handlers accumulate the output and resolve the  *)
(* promise with a ShellResult.                                             *)
(* Telemetry (src/src/telemetry.ts) hands events to its reporter when      *)
(* canSend allows it.                                                      *)
(*                                                                         *)
(* One step of the model is one task of the Node event loop (a handler or  *)
(* a timer callback, run to completion), one step of a child process, or   *)
(* one second of wall time.  Texts are sequences of tokens.  The process   *)
(* model is POSIX: a process killed by a signal reports exit code null.    *)
(***************************************************************************)
EXTENDS Integers, Sequences, FiniteSets, TLC

\* ---- bounds of the model ------------------------------------------------
NumHandles == 2
MaxPid == 2
MaxChunks == 2
MaxTime == 4
MaxCalls == 3
MaxLines == 2
MaxConfigs == 2

\* ---- program constants --------------------------------------------------
\* setTimeout(..., 2000): the grace window, in seconds
GraceSeconds == 2

Handles == 1..NumHandles
Pids == 1..MaxPid
Commands == {"flux", ""}
ExitCodes == {"0", "1"}

\* values of the gitops.execTimeout setting, as strings of characters
\* (<<>> is an absent setting)
TimeoutSettings == {<<>>, <<"0">>, <<"1">>, <<"-", "1">>}

VARIABLES
    now,            \* wall clock, seconds since the first invocation
    callers,        \* call sites that have not invoked yet
    execTimeout,    \* the gitops.execTimeout setting
    inv,            \* per handle: the invocation (promise, local buffers)
    proc,           \* per handle: the ChildProcess object and its OS process tree
                    \* (root: the spawned shell; desc: "running" while a process
                    \* forked below the root is alive)
    gov,            \* per handle: the timers and signals of setExecTimeoutKill
    sink,           \* the output channel: pushes in delivery order
    host,           \* the extension host: process.env, the settings execOpts reads,
                    \* the platform, and whether the output channel accepts pushes
    telemetry,      \* the Telemetry object: the extension mode of its context, the
                    \* user's telemetry setting, what the reporter was handed
    flux,           \* one run of installFluxCli: its position, what its steps
                    \* returned and what it has done to the machine
    azure           \* one call of an AzureTools method: its position, the commands
                    \* it started and the command line it built

vars == <<now, callers, execTimeout, inv, proc, gov, sink, host, telemetry, flux, azure>>

\* the variables of the command execution
execVars == <<now, callers, execTimeout, inv, proc, gov, sink, host>>

\* ---- texts --------------------------------------------------------------
Tok(s, k) == [s |-> s, k |-> k]

\* the k-th chunk a child writes to a stream
Chunk(stream, k) == <<Tok(stream, k)>>

\* the concatenation of the first n chunks of a stream
StreamText(stream, n) == [k \in 1..n |-> Tok(stream, k)]

\* `exec '${cmd}' timed out.\nSTDERR: `
TimedOutMarker(cmd) == <<Tok("exec '", 0), Tok(cmd, 0), Tok("' timed out. STDERR: ", 0)>>

\* `> ${cmd}`
CommandEcho(cmd) == <<Tok("> ", 0), Tok(cmd, 0)>>

NewLine == <<Tok("newline", 0)>>

Max(a, b) == IF a >= b THEN a ELSE b

\* ---- parseInt -----------------------------------------------------------
Digits == <<"0", "1", "2", "3", "4", "5", "6", "7", "8", "9">>

IsDigit(c) == \E d \in 1..10 : Digits[d] = c

DigitVal(c) == (CHOOSE d \in 1..10 : Digits[d] = c) - 1

RECURSIVE ParseDigits(_, _, _)
ParseDigits(s, i, acc) ==
    IF i > Len(s) \/ ~IsDigit(s[i]) THEN acc
    ELSE ParseDigits(s, i + 1, acc * 10 + DigitVal(s[i]))

\* parseInt(timeout): an optional sign, then the leading digits; NaN without digits
ParseInt(s) ==
    LET signed == Len(s) > 0 /\ s[1] \in {"-", "+"}
        start == IF signed THEN 2 ELSE 1
    IN  IF start > Len(s) \/ ~IsDigit(s[start])
        THEN [nan |-> TRUE, val |-> 0]
        ELSE [nan |-> FALSE,
              val |-> (IF signed /\ s[1] = "-" THEN -1 ELSE 1) * ParseDigits(s, start, 0)]

\* ---- records ------------------------------------------------------------
NoResult == [code |-> "none", stdout |-> <<>>, stderr |-> <<>>]

ShellResult(code, stdout, stderr) == [code |-> code, stdout |-> stdout, stderr |-> stderr]

IdleInv == [kind |-> "none", cmd |-> "", stdout |-> <<>>, stderr |-> <<>>,
            result |-> NoResult, rejected |-> FALSE, resolves |-> 0, spawns |-> 0,
            outRecv |-> 0, errRecv |-> 0, outAtResult |-> 0, errAtResult |-> 0]

\* process.env as the extension inherited it
InheritedEnv == [KUBECONFIG |-> "unset", Path |-> <<"C:/Windows">>]

\* the settings execOpts reads: the vs-kubernetes.kubeconfig setting ("" when not
\* set), the stored flux path ("" when none), process.platform === 'win32'
Settings(kubeconfig, fluxPath, win) == [kubeconfig |-> kubeconfig, fluxPath |-> fluxPath, win |-> win]

NoProc == [env |-> InheritedEnv, launchSettings |-> Settings("", "", FALSE),
           pid |-> 0, root |-> "none", exitCode |-> "null", signalCode |-> "null",
           osCode |-> "null", osSignal |-> "null", killer |-> "none",
           desc |-> "none", outPipe |-> <<>>, errPipe |-> <<>>,
           outWritten |-> 0, errWritten |-> 0, closed |-> FALSE]

\* timers: the pending setTimeout callbacks; the other fields record what the
\* callbacks did (termAt / killAt: when the signals were sent; lateSignals: signals
\* sent after the exit was observed; foreignHits: signals that reached the process
\* tree of another handle; setting: the execTimeout value read at launch)
NoGov == [timers |-> {}, termSent |-> 0, killSent |-> 0, launchedAt |-> 0,
          timeoutSeconds |-> 0, runningAtDeadline |-> FALSE, graceFired |-> FALSE,
          termAt |-> 0, killAt |-> 0, lateSignals |-> 0, foreignHits |-> 0,
          setting |-> <<>>]

\* context.extensionMode
ExtensionModes == {"Production", "Development", "Test"}

\* new Telemetry(context, ...): the reporter has been handed nothing yet
NewTelemetry(extensionMode, isTelemetryEnabled) ==
    [extensionMode |-> extensionMode, isTelemetryEnabled |-> isTelemetryEnabled,
     reporter |-> <<>>, calls |-> 0, disposed |-> FALSE]

\* ---- the checksums file ------------------------------------------------------
\* a text is a sequence of characters; a checksum and a file name count as one
\* character each, as do the two spaces between them and the line feed
LF == "LF"
TwoSpaces == "  "
Checksums == {"059c", "2b85"}
FileNames == {"flux_windows_amd64.zip", "flux_darwin_amd64.tar.gz"}

\* what a line of the checksums file says: nothing, or a checksum for a file
LineEntries == {[sum |-> c, name |-> f] : c \in Checksums, f \in FileNames}
BlankLine == [sum |-> "", name |-> ""]

RECURSIVE SeqsUpTo(_, _)
\* the sequences over S of length at most n
SeqsUpTo(S, n) ==
    IF n = 0 THEN {<<>>}
    ELSE LET shorter == SeqsUpTo(S, n - 1)
         IN  shorter \cup {Append(q, x) : q \in {r \in shorter : Len(r) = n - 1}, x \in S}

\* the line as written in the file
LineText(e) == IF e = BlankLine THEN <<>> ELSE <<e.sum, TwoSpaces, e.name>>

RECURSIVE FileText(_)
\* the file with these lines, each but the last followed by a line feed
FileText(entries) ==
    IF entries = <<>> THEN <<>>
    ELSE IF Len(entries) = 1 THEN LineText(entries[1])
    ELSE LineText(Head(entries)) \o <<LF>> \o FileText(Tail(entries))

RECURSIVE Split(_, _)
\* String.prototype.split(separator)
Split(text, separator) ==
    IF text = <<>> THEN << <<>> >>
    ELSE LET rest == Split(Tail(text), separator)
         IN  IF Head(text) = separator
             THEN << <<>> >> \o rest
             ELSE << <<Head(text)>> \o Head(rest) >> \o Tail(rest)

\* Errorable: { succeeded: true } or { succeeded: false, error }
Succeeded == [succeeded |-> TRUE, error |-> ""]
Failed(error) == [succeeded |-> FALSE, error |-> error]
NotRun == [succeeded |-> FALSE, error |-> "not run"]

\* checkChecksum(checksumFileContents, targetFileName, computedChecksum)
CheckChecksum(checksumFileContents, targetFileName, computedChecksum) ==
    LET nonEmpty == SelectSeq(Split(checksumFileContents, LF), LAMBDA line : Len(line) > 0)
        lines == [i \in 1..Len(nonEmpty) |-> Split(nonEmpty[i], TwoSpaces)]
        naming == {i \in 1..Len(lines) :
                      Len(lines[i]) >= 2 /\ lines[i][2] = <<targetFileName>>}
    IN  IF naming = {} THEN Failed("File not found in the checksums.txt file")
        ELSE LET targetLine == lines[CHOOSE i \in naming : \A j \in naming : i <= j]
             IN  IF targetLine[1] = <<computedChecksum>> THEN Succeeded
                 ELSE Failed("Checksum mismatch for the file")

\* ---- the flux installer, Windows branch ----------------------------------------
\* the steps of the branch in the order of the code
InstallSteps ==
    <<"getLatestVersion", "downloadFile", "unzipFile", "getAppdataPath", "createDir",
      "downloadFluxChecksums", "readFile", "computeChecksumWindows", "checkChecksum",
      "moveFile", "appendToPathEnvironmentVariableWindows", "globalState.update">>
StepIndex(step) == CHOOSE i \in 1..Len(InstallSteps) : InstallSteps[i] = step
\* the steps whose result only the environment decides
HelperSteps ==
    {"downloadFile", "unzipFile", "getAppdataPath", "createDir", "downloadFluxChecksums",
     "moveFile", "appendToPathEnvironmentVariableWindows"}

\* the promise of getLatestVersion while nothing has resolved it
Pending == <<"pending">>
\* the location header of the answer to releases/latest; NoLocation: the header is absent
NoLocation == <<"no location">>
Locations ==
    {<<"fluxcd", "/", "flux2", "/", "releases", "/", "tag", "/", "v", "0.25.2">>,
     <<"fluxcd", "/", "flux2", "/", "releases", "/", "tag", "/", "0.25.2">>,
     <<"fluxcd", "/", "flux2", "/", "releases", "/">>}
\* location.split('/').pop()?.replace(/^v/, '')
LatestVersionOf(location) ==
    LET segments == Split(location, "/")
        last == segments[Len(segments)]
    IN  IF last # <<>> /\ Head(last) = "v" THEN Tail(last) ELSE last

\* gitHubAssetArchiveName: the one archive of this platform and architecture
GitHubAssetArchiveName == "flux_windows_amd64.zip"

NoFlux ==
    [pc |-> "idle", request |-> "none", version |-> Pending, entries |-> <<>>,
     text |-> <<>>, target |-> GitHubAssetArchiveName, computed |-> "",
     check |-> NotRun, ran |-> <<>>, failedAt |-> "none", effects |-> {}, shown |-> {}]

\* the step is over, but a checksum that failed does not stop the installation
InstallNextIgnoreChecksum(f, step, stepFailed) ==
    IF stepFailed /\ step # "checkChecksum"
    THEN [f EXCEPT !.ran = Append(@, step), !.failedAt = step, !.pc = "returned",
                   !.shown = @ \cup {step}]
    ELSE [f EXCEPT !.ran = Append(@, step),
                   !.pc = IF StepIndex(step) = Len(InstallSteps) THEN "returned"
                          ELSE InstallSteps[StepIndex(step) + 1]]

\* one step of the branch is over: `if (failed(result)) { showErrorMessage; return; }`
InstallNext(f, step, stepFailed) ==
    IF stepFailed
    THEN [f EXCEPT !.ran = Append(@, step), !.failedAt = step, !.pc = "returned",
                   !.shown = @ \cup {step}]
    ELSE [f EXCEPT !.ran = Append(@, step),
                   !.pc = IF StepIndex(step) = Len(InstallSteps) THEN "returned"
                          ELSE InstallSteps[StepIndex(step) + 1]]

\* ---- AzureTools ----------------------------------------------------------------
\* the az commands of one method call. disableGitOps: first the list command, then
\* one flux delete per configuration, last the extension delete; createSourceGit2
\* has the first one only
FirstCommand == 0
ExtensionCommand == MaxConfigs + 1
AzCommands == FirstCommand..ExtensionCommand
DeleteCommands(a) == 1..a.configs

\* where one invokeAzCommand stands: "none" not called, "metadata" awaiting
\* getAzureMetadata, "running" awaiting shell.execWithOutput, "delivered" returned
\* the ShellResult with this code, "undefined" returned without a command (no
\* metadata), "rejected" the promise of execWithOutput was rejected
NotInvoked == [state |-> "none", code |-> "none"]
AwaitingMetadata == [state |-> "metadata", code |-> "none"]
ResultCodes == {"0", "1", "null"}
Fulfilled(c) == c.state \in {"delivered", "undefined"}
Settled(c) == Fulfilled(c) \/ c.state = "rejected"

\* invokeAzCommand is called for the command c
InvokeAzCommand(a, c) == [a EXCEPT !.cmd[c] = AwaitingMetadata]

\* Promise.all over the flux deletes is fulfilled in one of them only
DeletesFulfilledAny(a) ==
    a.configs = 0 \/ \E c \in DeleteCommands(a) : Fulfilled(a.cmd[c])

\* Promise.all over the flux deletes is fulfilled
DeletesFulfilled(a) == \A c \in DeleteCommands(a) : Fulfilled(a.cmd[c])

\* the text of a value between double quotes
Quoted(value) == <<"\"", value, "\"">>
\* `value ? ` --flag "${value}"` : ''`
OptionalArg(flag, value) == IF value = "" THEN <<>> ELSE <<" ", flag, " ">> \o Quoted(value)
\* `value ? ` key="${value}"` : ''`
KustomizationOption(key, value) == IF value = "" THEN <<>> ELSE <<" ", key>> \o Quoted(value)
KustomizationPrune(prune) == IF prune THEN <<" ", "prune=", "true">> ELSE <<"prune=", "false">>
KustomizationForce(force) == IF force THEN <<" ", "force=", "true">> ELSE <<"prune=", "false">>

\* kustomizationPart of createSourceGit2; a string is truthy when not empty
KustomizationPart(args) ==
    LET kustomizationName == KustomizationOption("name=", args.kustomizationName)
        kustomizationPath == KustomizationOption("path=", args.kustomizationPath)
        kustomizationDependsOn == KustomizationOption("depends_on=", args.kustomizationDependsOn)
        kustomizationTimeout == KustomizationOption("timeout=", args.kustomizationTimeout)
        kustomizationSyncInterval ==
            KustomizationOption("sync_interval=", args.kustomizationSyncInterval)
        kustomizationRetryInterval ==
            KustomizationOption("retry_interval=", args.kustomizationRetryInterval)
        kustomizationPrune == KustomizationPrune(args.kustomizationPrune)
        kustomizationForce == KustomizationForce(args.kustomizationForce)
    IN  IF \/ kustomizationName # <<>> \/ kustomizationPath # <<>>
           \/ kustomizationDependsOn # <<>> \/ kustomizationTimeout # <<>>
           \/ kustomizationSyncInterval # <<>> \/ kustomizationRetryInterval # <<>>
           \/ kustomizationPrune # <<>> \/ kustomizationForce # <<>>
        THEN <<" ", "--kustomization">> \o kustomizationName \o kustomizationPath
             \o kustomizationDependsOn \o kustomizationTimeout \o kustomizationSyncInterval
             \o kustomizationRetryInterval \o kustomizationPrune \o kustomizationForce
        ELSE <<>>

\* the command createSourceGit2 hands to invokeAzCommand
CreateCommand(args) ==
    <<"az k8s-configuration flux create -n ", args.sourceName, " ", "--url", " ">>
    \o Quoted(args.url)
    \o OptionalArg("--branch", args.branch) \o OptionalArg("--tag", args.tag)
    \o OptionalArg("--semver", args.semver) \o OptionalArg("--commit", args.commit)
    \o OptionalArg("--interval", args.interval) \o OptionalArg("--timeout", args.timeout)
    \o OptionalArg("--https-ca-cert", args.caCert)
    \o OptionalArg("--https-ca-cert-file", args.caCertFile)
    \o OptionalArg("--https-key", args.httpsKey) \o OptionalArg("--https-user", args.httpsUser)
    \o OptionalArg("--known-hosts", args.knownHosts)
    \o OptionalArg("--known-hosts-file", args.knownHostsFile)
    \o OptionalArg("--local-auth-ref", args.localAuthRef)
    \o OptionalArg("--ssh-private-key", args.sshPrivateKey)
    \o OptionalArg("--ssh-private-key-file", args.sshPrivateKeyFile)
    \o KustomizationPart(args)

\* the arguments of createSourceGit2 the model varies; the others are empty
SourceArgs(branch, name, path, dependsOn, timeout, syncInterval, retryInterval, prune, force) ==
    [sourceName |-> "podinfo", url |-> "https://github.com/stefanprodan/podinfo",
     branch |-> branch, tag |-> "", semver |-> "", commit |-> "", interval |-> "",
     timeout |-> "", caCert |-> "", caCertFile |-> "", httpsKey |-> "", httpsUser |-> "",
     knownHosts |-> "", knownHostsFile |-> "", localAuthRef |-> "", sshPrivateKey |-> "",
     sshPrivateKeyFile |-> "",
     kustomizationName |-> name, kustomizationPath |-> path,
     kustomizationDependsOn |-> dependsOn, kustomizationTimeout |-> timeout,
     kustomizationSyncInterval |-> syncInterval,
     kustomizationRetryInterval |-> retryInterval,
     kustomizationPrune |-> prune, kustomizationForce |-> force]
\* no call of createSourceGit2: no arguments
NoArgs == <<>>

NoAzure ==
    [pc |-> "idle", configs |-> 0, cmd |-> [c \in AzCommands |-> NotInvoked],
     args |-> NoArgs, command |-> <<>>]

Invoked(h) == inv[h].kind # "none"
Delivered(h) == inv[h].result # NoResult

\* Node has observed the end of the child ('exit', or 'error' for a failed spawn)
Exited(h) == proc[h].root \in {"reaped", "failed"}

\* ---- the initial state --------------------------------------------------
Host(settings) == [env |-> InheritedEnv, settings |-> settings, sinkUp |-> TRUE]

KubeconfigSettings == {"", "kubeconfig-a"}
FluxPaths == {"", "C:/flux"}

InitWith(cs, settingsSet) ==
    /\ now = 0
    /\ callers = cs
    /\ host \in {Host(st) : st \in settingsSet}
    /\ execTimeout \in TimeoutSettings
    /\ inv = [h \in Handles |-> IdleInv]
    /\ proc = [h \in Handles |-> NoProc]
    /\ gov = [h \in Handles |-> NoGov]
    /\ sink = <<>>
    /\ telemetry = NewTelemetry("Production", TRUE)
    /\ flux = NoFlux
    /\ azure = NoAzure

Init == InitWith({1}, {Settings("", "", FALSE)})

\* the termination state of a handle, read off the ChildProcess and the signals sent
StateOf(p, g) ==
    IF p.root \in {"none", "nocommand"} THEN "None"
    ELSE IF p.root \in {"reaped", "failed"} THEN "Exited"
    ELSE IF g.killSent > 0 THEN "ForceKilled"
    ELSE IF g.termSent > 0 THEN "GracefullyTerminating"
    ELSE "Running"

\* ---- the operating system and the libraries ------------------------------
\* a pid the OS can hand out: the lowest one no live or unreaped process holds
PidInUse(p, pid) == \E g \in Handles : p[g].pid = pid /\ p[g].root \in {"running", "zombie"}

FreshPid(p) == CHOOSE pid \in Pids : ~PidInUse(p, pid) /\ \A q \in Pids : q < pid => PidInUse(p, q)

\* is-running: process.kill(pid, 0) succeeds, also for a process not reaped yet
IsRunning(p, pid) == PidInUse(p, pid)

\* shelljs.exec(cmd, {async: true}): child_process.exec spawns a shell; a spawn
\* that fails leaves a ChildProcess without pid that emits 'error' on the next tick
\* (an empty command makes shelljs return a ShellString, which is no process and
\* has no exitCode)
ShelljsExec(p, cmd, ok, hasDesc) ==
    IF cmd = ""
    THEN [NoProc EXCEPT !.root = "nocommand", !.exitCode = "undefined"]
    ELSE IF ok
    THEN [NoProc EXCEPT !.pid = FreshPid(p), !.root = "running",
                        !.desc = IF hasDesc THEN "running" ELSE "none"]
    ELSE [NoProc EXCEPT !.root = "spawnerror"]

\* one process tree receives a signal: SIGKILL kills, SIGTERM kills, is handled
\* (the process exits with a code of its own) or is ignored, per process
SignalTree(r, sig, rootOut, descOut) ==
    LET d == IF r.desc = "running" /\ (sig = "SIGKILL" \/ descOut = "die") THEN "none" ELSE r.desc
    IN  IF sig = "SIGKILL" \/ rootOut = "die"
        THEN [r EXCEPT !.root = "zombie", !.osCode = "null", !.osSignal = sig,
                       !.killer = "governor", !.desc = d]
        ELSE IF rootOut \in ExitCodes
        THEN [r EXCEPT !.root = "zombie", !.osCode = rootOut, !.osSignal = "null",
                       !.killer = "governor", !.desc = d]
        ELSE [r EXCEPT !.desc = d]

\* tree-kill: the signal goes to the process that holds pid now and to the
\* processes found below it; the children of a dead process are not found
TreeKill(p, pid, sig, rootOut, descOut) ==
    [g \in Handles |->
        IF p[g].pid = pid /\ p[g].root = "running"
        THEN SignalTree(p[g], sig, rootOut, descOut)
        ELSE p[g]]

TermOutcomes == {"die", "ignore"} \cup ExitCodes

\* 1 if a signal sent to pid on behalf of handle h reaches the tree of another handle
ForeignHit(p, h, pid) ==
    IF \E g \in Handles \ {h} : p[g].pid = pid /\ p[g].root = "running" THEN 1 ELSE 0

\* 1 if handle h has already exited
LateSignal(h) == IF Exited(h) THEN 1 ELSE 0

\* Promise resolve: the first call settles the promise, later calls do nothing
Resolve(i, r) ==
    IF i.result = NoResult
    THEN [i EXCEPT !.result = r, !.resolves = @ + 1,
                   !.outAtResult = i.outRecv, !.errAtResult = i.errRecv]
    ELSE [i EXCEPT !.resolves = @ + 1]

Push(h, src, text) == [h |-> h, src |-> src, text |-> text]

\* ---- execOpts --------------------------------------------------------------
\* the env object handed to shelljs: process.env itself, after the assignments
ExecOpts(hst) ==
    LET st == hst.settings
        env == IF st.kubeconfig # ""
               THEN [hst.env EXCEPT !.KUBECONFIG = st.kubeconfig]
               ELSE hst.env
    IN  IF st.win /\ st.fluxPath # ""
        THEN [env EXCEPT !.Path = @ \o <<";", st.fluxPath>>]
        ELSE env

\* ---- setExecTimeoutKill -------------------------------------------------
\* SetExecTimeoutKill without the test for 0
SetExecTimeoutKillNaNOnly(g) ==
    LET timeoutSeconds == ParseInt(execTimeout)
    IN  IF timeoutSeconds.nan
        THEN [g EXCEPT !.launchedAt = now, !.setting = execTimeout]
        ELSE [g EXCEPT !.launchedAt = now, !.setting = execTimeout,
                       !.timeoutSeconds = timeoutSeconds.val,
                       !.timers = @ \cup {[kind |-> "deadline",
                                           due |-> now + Max(timeoutSeconds.val, 0)]}]

\* the timer armed at launch, if any
SetExecTimeoutKill(g) ==
    LET timeoutSeconds == ParseInt(execTimeout)
    IN  IF timeoutSeconds.nan \/ timeoutSeconds.val = 0
        THEN [g EXCEPT !.launchedAt = now, !.setting = execTimeout]
        ELSE [g EXCEPT !.launchedAt = now, !.setting = execTimeout,
                       !.timeoutSeconds = timeoutSeconds.val,
                       !.timers = @ \cup {[kind |-> "deadline",
                                           due |-> now + Max(timeoutSeconds.val, 0)]}]

\* OnDeadline with the setting read again when the timer expires: nothing is sent
\* when the timeout has been switched off meanwhile
OnDeadlineRereadSetting(h, rootOut, descOut) ==
    LET timeoutSeconds == ParseInt(execTimeout)
    IN  IF proc[h].exitCode = "null" /\ ~(timeoutSeconds.nan \/ timeoutSeconds.val = 0)
        THEN /\ proc' = TreeKill(proc, proc[h].pid, "SIGTERM", rootOut, descOut)
             /\ gov' = [gov EXCEPT ![h].timers = {u \in @ : u.kind # "deadline"}
                                                   \cup {[kind |-> "grace", due |-> now + GraceSeconds]},
                                   ![h].termSent = @ + 1,
                                   ![h].termAt = now,
                                   ![h].lateSignals = @ + LateSignal(h),
                                   ![h].foreignHits = @ + ForeignHit(proc, h, proc[h].pid),
                                   ![h].runningAtDeadline = (proc[h].root = "running")]
        ELSE /\ proc' = proc
             /\ gov' = [gov EXCEPT ![h].timers = {u \in @ : u.kind # "deadline"}]

\* OnDeadline with a grace window as long as the configured timeout
OnDeadlineGraceFromTimeout(h, rootOut, descOut) ==
    IF proc[h].exitCode = "null"
    THEN /\ proc' = TreeKill(proc, proc[h].pid, "SIGTERM", rootOut, descOut)
         /\ gov' = [gov EXCEPT ![h].timers = {u \in @ : u.kind # "deadline"}
                                               \cup {[kind |-> "grace",
                                                      due |-> now + Max(gov[h].timeoutSeconds, 0)]},
                               ![h].termSent = @ + 1,
                               ![h].termAt = now,
                               ![h].lateSignals = @ + LateSignal(h),
                               ![h].foreignHits = @ + ForeignHit(proc, h, proc[h].pid),
                               ![h].runningAtDeadline = (proc[h].root = "running")]
    ELSE /\ proc' = proc
         /\ gov' = [gov EXCEPT ![h].timers = {u \in @ : u.kind # "deadline"}]

\* OnDeadline with the forceful signal sent at the deadline, without a grace window
OnDeadlineKillAtOnce(h, rootOut, descOut) ==
    IF proc[h].exitCode = "null"
    THEN /\ proc' = TreeKill(proc, proc[h].pid, "SIGKILL", rootOut, descOut)
         /\ gov' = [gov EXCEPT ![h].timers = {u \in @ : u.kind # "deadline"},
                               ![h].killSent = @ + 1,
                               ![h].killAt = now,
                               ![h].runningAtDeadline = (proc[h].root = "running")]
    ELSE /\ proc' = proc
         /\ gov' = [gov EXCEPT ![h].timers = {u \in @ : u.kind # "deadline"}]

\* the outer timer callback
OnDeadline(h, rootOut, descOut) ==
    IF proc[h].exitCode = "null"
    THEN /\ proc' = TreeKill(proc, proc[h].pid, "SIGTERM", rootOut, descOut)
         /\ gov' = [gov EXCEPT ![h].timers = {u \in @ : u.kind # "deadline"}
                                               \cup {[kind |-> "grace", due |-> now + GraceSeconds]},
                               ![h].termSent = @ + 1,
                               ![h].termAt = now,
                               ![h].lateSignals = @ + LateSignal(h),
                               ![h].foreignHits = @ + ForeignHit(proc, h, proc[h].pid),
                               ![h].runningAtDeadline = (proc[h].root = "running")]
    ELSE /\ proc' = proc
         /\ gov' = [gov EXCEPT ![h].timers = {u \in @ : u.kind # "deadline"}]

\* the inner timer callback
OnGrace(h) ==
    IF IsRunning(proc, proc[h].pid)
    THEN /\ proc' = TreeKill(proc, proc[h].pid, "SIGKILL", "die", "die")
         /\ gov' = [gov EXCEPT ![h].timers = {u \in @ : u.kind # "grace"},
                               ![h].killSent = @ + 1,
                               ![h].killAt = now,
                               ![h].lateSignals = @ + LateSignal(h),
                               ![h].foreignHits = @ + ForeignHit(proc, h, proc[h].pid),
                               ![h].graceFired = TRUE]
    ELSE /\ proc' = proc
         /\ gov' = [gov EXCEPT ![h].timers = {u \in @ : u.kind # "grace"},
                               ![h].graceFired = TRUE]

TimerDue(h, kind) == \E t \in gov[h].timers : t.kind = kind /\ t.due <= now

\* ---- the handlers of execWithOutput.innerExec and of shelljs ----------------
\* OnStdoutData with the late chunk written into the result as well
OnStdoutDataIntoResult(h, data) ==
    /\ inv' = [inv EXCEPT ![h].stdout = @ \o data, ![h].outRecv = @ + 1,
                          ![h].result.stdout = IF Delivered(h) THEN @ \o data ELSE @]
    /\ sink' = IF inv[h].kind = "execWithOutput"
               THEN Append(sink, Push(h, "stdout", data)) ELSE sink

\* OnStdoutData with one buffer shared by all the invocations in flight
OnStdoutDataShared(h, data) ==
    /\ inv' = [g \in Handles |->
                  IF g = h
                  THEN [inv[g] EXCEPT !.stdout = @ \o data, !.outRecv = @ + 1]
                  ELSE IF Invoked(g) /\ ~Delivered(g)
                  THEN [inv[g] EXCEPT !.stdout = @ \o data]
                  ELSE inv[g]]
    /\ sink' = IF inv[h].kind = "execWithOutput"
               THEN Append(sink, Push(h, "stdout", data)) ELSE sink

\* output.send: the push is appended to the channel; when the channel is down the
\* call throws and the rest of the handler is skipped
OutputSend(h, src, text) == IF host.sinkUp THEN Append(sink, Push(h, src, text)) ELSE sink

OnStdoutData(h, data) ==
    IF inv[h].kind = "execWithOutput"
    THEN /\ inv' = [inv EXCEPT ![h].stdout = @ \o data, ![h].outRecv = @ + 1]
         /\ sink' = OutputSend(h, "stdout", data)
    ELSE /\ inv' = [inv EXCEPT ![h].stdout = @ \o data, ![h].outRecv = @ + 1]
         /\ sink' = sink

\* OnStderrData with the accumulated buffer sent instead of the chunk
OnStderrDataSendBuffer(h, data) ==
    IF inv[h].kind = "execWithOutput"
    THEN /\ inv' = [inv EXCEPT ![h].stderr = @ \o data, ![h].errRecv = @ + 1]
         /\ sink' = OutputSend(h, "stderr", inv[h].stderr \o data)
    ELSE /\ inv' = [inv EXCEPT ![h].stderr = @ \o data, ![h].errRecv = @ + 1]
         /\ sink' = sink

OnStderrData(h, data) ==
    IF inv[h].kind = "execWithOutput"
    THEN /\ inv' = [inv EXCEPT ![h].stderr = @ \o data, ![h].errRecv = @ + 1]
         /\ sink' = OutputSend(h, "stderr", data)
    ELSE /\ inv' = [inv EXCEPT ![h].stderr = @ \o data, ![h].errRecv = @ + 1]
         /\ sink' = sink

\* OnExit with the marker put on every exit code other than 0
OnExitAnnotateFailure(h, code) ==
    IF inv[h].kind = "execWithOutput"
    THEN LET i == inv[h]
             stderr == IF code # "0" THEN TimedOutMarker(i.cmd) \o i.stderr ELSE i.stderr
         IN  /\ sink' = Append(sink, Push(h, "newline", NewLine))
             /\ inv' = [inv EXCEPT ![h] = Resolve([i EXCEPT !.stderr = stderr],
                                                  ShellResult(code, i.stdout, stderr))]
    ELSE UNCHANGED <<inv, sink>>

\* childProcess.on('exit', ...)
OnExit(h, code) ==
    IF inv[h].kind = "execWithOutput" /\ host.sinkUp
    THEN LET i == inv[h]
             stderr == IF code = "null" THEN TimedOutMarker(i.cmd) \o i.stderr ELSE i.stderr
         IN  /\ sink' = Append(sink, Push(h, "newline", NewLine))
             /\ inv' = [inv EXCEPT ![h] = Resolve([i EXCEPT !.stderr = stderr],
                                                  ShellResult(code, i.stdout, stderr))]
    ELSE UNCHANGED <<inv, sink>>

\* the callback execCore gives to shelljs.exec, called when the child closes
OnExecCallback(h, code) ==
    IF inv[h].kind = "exec"
    THEN inv' = [inv EXCEPT ![h] = Resolve(@, ShellResult(code, inv[h].stdout, inv[h].stderr))]
    ELSE inv' = inv

\* ---- the entry points ----------------------------------------------------
NewInv(kind, cmd) ==
    [IdleInv EXCEPT !.kind = kind, !.cmd = cmd, !.spawns = IF cmd = "" THEN 0 ELSE 1]

\* the promise is rejected
Rejected(i) == [i EXCEPT !.rejected = TRUE]

\* the ChildProcess of a launch, with the environment it was given
Launch(cmd, ok, hasDesc) ==
    [ShelljsExec(proc, cmd, ok, hasDesc) EXCEPT !.env = ExecOpts(host),
                                                !.launchSettings = host.settings]

\* execWithOutput -> innerExec: echo the command, spawn, arm the timeout, register
\* the handlers (which throws on the ShellString of an empty command)
ExecWithOutput(h, cmd, ok, hasDesc) ==
    /\ h \in callers
    /\ \E pid \in Pids : ~PidInUse(proc, pid)
    /\ callers' = callers \ {h}
    /\ IF host.sinkUp
       THEN /\ sink' = OutputSend(h, "command", CommandEcho(cmd))
            /\ host' = [host EXCEPT !.env = ExecOpts(host)]
            /\ proc' = [proc EXCEPT ![h] = Launch(cmd, ok, hasDesc)]
            /\ gov' = [gov EXCEPT ![h] = SetExecTimeoutKill(NoGov)]
            /\ inv' = [inv EXCEPT ![h] = IF cmd = ""
                                         THEN Rejected(NewInv("execWithOutput", cmd))
                                         ELSE NewInv("execWithOutput", cmd)]
       ELSE /\ inv' = [inv EXCEPT ![h] =
                          Rejected([IdleInv EXCEPT !.kind = "execWithOutput", !.cmd = cmd])]
            /\ UNCHANGED <<sink, host, proc, gov>>
    /\ UNCHANGED <<telemetry, flux, azure, now, execTimeout>>

\* exec -> execCore: spawn with a completion callback, arm the timeout
Exec(h, cmd, ok, hasDesc) ==
    /\ h \in callers
    /\ \E pid \in Pids : ~PidInUse(proc, pid)
    /\ callers' = callers \ {h}
    /\ host' = [host EXCEPT !.env = ExecOpts(host)]
    /\ proc' = [proc EXCEPT ![h] = Launch(cmd, ok, hasDesc)]
    /\ gov' = [gov EXCEPT ![h] = SetExecTimeoutKill(NoGov)]
    /\ inv' = [inv EXCEPT ![h] = NewInv("exec", cmd)]
    /\ UNCHANGED <<telemetry, flux, azure, now, execTimeout, sink>>

\* execProc: spawn with a completion callback that does nothing and hand the
\* ChildProcess to the caller; setExecTimeoutKill is not called
ExecProc(h, cmd, ok, hasDesc) ==
    /\ h \in callers
    /\ \E pid \in Pids : ~PidInUse(proc, pid)
    /\ callers' = callers \ {h}
    /\ host' = [host EXCEPT !.env = ExecOpts(host)]
    /\ proc' = [proc EXCEPT ![h] = Launch(cmd, ok, hasDesc)]
    /\ inv' = [inv EXCEPT ![h] = NewInv("execProc", cmd)]
    /\ UNCHANGED <<telemetry, flux, azure, now, execTimeout, gov, sink>>

\* ---- the extension host -----------------------------------------------------
\* the user edits or clears the vs-kubernetes.kubeconfig setting
SetKubeconfig(v) ==
    /\ v # host.settings.kubeconfig
    /\ host' = [host EXCEPT !.settings.kubeconfig = v]
    /\ UNCHANGED <<telemetry, flux, azure, now, callers, execTimeout, inv, proc, gov, sink>>

\* the user changes the gitops.execTimeout setting
SetExecTimeout(v) ==
    /\ v # execTimeout
    /\ execTimeout' = v
    /\ UNCHANGED <<now, callers, inv, proc, gov, sink, host, telemetry, flux, azure>>

\* the output channel stops accepting pushes
SinkBreaks ==
    /\ host.sinkUp
    /\ host' = [host EXCEPT !.sinkUp = FALSE]
    /\ UNCHANGED <<telemetry, flux, azure, now, callers, execTimeout, inv, proc, gov, sink>>

\* ---- Telemetry -----------------------------------------------------------------
EventNames == {"STARTUP", "NEW_INSTALL"}
ErrorEvents == {"UNCAUGHT_EXCEPTION", "GIT_NOT_INSTALLED"}

\* CanSend without the look at the user's setting
CanSendInProduction(t) ==
    IF t.extensionMode # "Production" THEN FALSE
    ELSE TRUE

\* Telemetry.canSend
CanSend(t) ==
    IF t.extensionMode # "Production" THEN FALSE
    ELSE IF ~t.isTelemetryEnabled THEN FALSE
    ELSE TRUE

\* Telemetry.send -> reporter.sendTelemetryEvent(eventName, payload)
Send(eventName, payload) ==
    /\ telemetry.calls < MaxCalls
    /\ telemetry' =
          IF ~CanSend(telemetry)
          THEN [telemetry EXCEPT !.calls = @ + 1]
          ELSE [telemetry EXCEPT !.calls = @ + 1,
                                 !.reporter = Append(@, [kind |-> "event", name |-> eventName,
                                                         data |-> payload])]
    /\ UNCHANGED <<now, callers, execTimeout, inv, proc, gov, sink, host, flux, azure>>

\* Telemetry.sendError -> reporter.sendTelemetryException(error, {name}); without
\* an error object a new Error(eventName) is sent
SendError(eventName, error) ==
    /\ telemetry.calls < MaxCalls
    /\ telemetry' =
          IF ~CanSend(telemetry)
          THEN [telemetry EXCEPT !.calls = @ + 1]
          ELSE LET e == IF error = "undefined" THEN eventName ELSE error
               IN  [telemetry EXCEPT !.calls = @ + 1,
                                     !.reporter = Append(@, [kind |-> "exception",
                                                             name |-> eventName, data |-> e])]
    /\ UNCHANGED <<now, callers, execTimeout, inv, proc, gov, sink, host, flux, azure>>

\* Telemetry.dispose -> reporter.dispose()
Dispose ==
    /\ ~telemetry.disposed
    /\ telemetry' = [telemetry EXCEPT !.disposed = TRUE]
    /\ UNCHANGED <<now, callers, execTimeout, inv, proc, gov, sink, host, flux, azure>>

\* the user switches the telemetry setting of the editor (env.isTelemetryEnabled)
SetTelemetryEnabled(b) ==
    /\ b # telemetry.isTelemetryEnabled
    /\ telemetry' = [telemetry EXCEPT !.isTelemetryEnabled = b]
    /\ UNCHANGED <<now, callers, execTimeout, inv, proc, gov, sink, host, flux, azure>>

\* ---- tasks of the event loop ------------------------------------------------
\* the 'error' event of a failed spawn (process.nextTick): child_process.exec
\* passes the error to the shelljs callback, which hands err.code on
SpawnErrorEvent(h) ==
    /\ proc[h].root = "spawnerror"
    /\ proc' = [proc EXCEPT ![h].root = "failed", ![h].exitCode = "ENOENT"]
    /\ OnExecCallback(h, "ENOENT")
    /\ UNCHANGED <<telemetry, flux, azure, host, now, callers, execTimeout, gov, sink>>

StdoutData(h) ==
    /\ proc[h].outPipe # <<>>
    /\ proc' = [proc EXCEPT ![h].outPipe = Tail(@)]
    /\ OnStdoutData(h, Head(proc[h].outPipe))
    /\ UNCHANGED <<telemetry, flux, azure, host, now, callers, execTimeout, gov>>

StderrData(h) ==
    /\ proc[h].errPipe # <<>>
    /\ proc' = [proc EXCEPT ![h].errPipe = Tail(@)]
    /\ OnStderrData(h, Head(proc[h].errPipe))
    /\ UNCHANGED <<telemetry, flux, azure, host, now, callers, execTimeout, gov>>

\* Node reaps the dead child: exitCode / signalCode are set, 'exit' is emitted
ExitEvent(h) ==
    /\ proc[h].root = "zombie"
    /\ proc' = [proc EXCEPT ![h].root = "reaped",
                            ![h].exitCode = proc[h].osCode,
                            ![h].signalCode = proc[h].osSignal]
    /\ OnExit(h, proc[h].osCode)
    /\ UNCHANGED <<telemetry, flux, azure, host, now, callers, execTimeout, gov>>

\* 'close': the child has exited and both pipes are drained and closed by every
\* process that held them
ClosePending(h) ==
    /\ proc[h].root \in {"reaped", "failed"}
    /\ ~proc[h].closed
    /\ proc[h].outPipe = <<>> /\ proc[h].errPipe = <<>>
    /\ proc[h].desc # "running"

CloseEvent(h) ==
    /\ ClosePending(h)
    /\ proc' = [proc EXCEPT ![h].closed = TRUE]
    /\ IF proc[h].root = "reaped"
       THEN OnExecCallback(h, proc[h].exitCode)
       ELSE inv' = inv
    /\ UNCHANGED <<telemetry, flux, azure, host, now, callers, execTimeout, gov, sink>>

DeadlineTimer(h) ==
    /\ TimerDue(h, "deadline")
    /\ proc[h].root # "spawnerror"
    /\ \E rootOut \in TermOutcomes, descOut \in {"die", "ignore"} :
          OnDeadline(h, rootOut, descOut)
    /\ UNCHANGED <<telemetry, flux, azure, host, now, callers, execTimeout, inv, sink>>

GraceTimer(h) ==
    /\ TimerDue(h, "grace")
    /\ OnGrace(h)
    /\ UNCHANGED <<telemetry, flux, azure, host, now, callers, execTimeout, inv, sink>>

\* ---- the child processes ----------------------------------------------------
ChildWriteStdout(h) ==
    /\ proc[h].root = "running"
    /\ proc[h].outWritten < MaxChunks
    /\ proc' = [proc EXCEPT ![h].outWritten = @ + 1,
                            ![h].outPipe = Append(@, Chunk("stdout", proc[h].outWritten + 1))]
    /\ UNCHANGED <<telemetry, flux, azure, host, now, callers, execTimeout, inv, gov, sink>>

ChildWriteStderr(h) ==
    /\ proc[h].root = "running"
    /\ proc[h].errWritten < MaxChunks
    /\ proc' = [proc EXCEPT ![h].errWritten = @ + 1,
                            ![h].errPipe = Append(@, Chunk("stderr", proc[h].errWritten + 1))]
    /\ UNCHANGED <<telemetry, flux, azure, host, now, callers, execTimeout, inv, gov, sink>>

\* the root process ends by itself
ChildExit(h, code) ==
    /\ proc[h].root = "running"
    /\ proc' = [proc EXCEPT ![h].root = "zombie", ![h].osCode = code, ![h].osSignal = "null"]
    /\ UNCHANGED <<telemetry, flux, azure, host, now, callers, execTimeout, inv, gov, sink>>

\* the root process is killed by a signal nobody in this module sent
ExternalSignal(h) ==
    /\ proc[h].root = "running"
    /\ proc' = [proc EXCEPT ![h].root = "zombie", ![h].osCode = "null",
                            ![h].osSignal = "SIGINT", ![h].killer = "external"]
    /\ UNCHANGED <<telemetry, flux, azure, host, now, callers, execTimeout, inv, gov, sink>>

DescendantExit(h) ==
    /\ proc[h].desc = "running"
    /\ proc' = [proc EXCEPT ![h].desc = "none"]
    /\ UNCHANGED <<telemetry, flux, azure, host, now, callers, execTimeout, inv, gov, sink>>

\* ---- time ---------------------------------------------------------------
\* the event loop has nothing ready to run
LoopIdle ==
    \A h \in Handles :
        /\ ~TimerDue(h, "deadline") /\ ~TimerDue(h, "grace")
        /\ proc[h].root \notin {"spawnerror", "zombie"}
        /\ proc[h].outPipe = <<>> /\ proc[h].errPipe = <<>>
        /\ ~ClosePending(h)

\* a second passes; ready tasks run within the second they become ready (the
\* clock counts from the first invocation)
Tick ==
    /\ now < MaxTime
    /\ \E h \in Handles : Invoked(h)
    /\ LoopIdle
    /\ now' = now + 1
    /\ UNCHANGED <<telemetry, flux, azure, host, callers, execTimeout, inv, proc, gov, sink>>

Next ==
    \/ \E h \in Handles, cmd \in Commands, ok \in BOOLEAN, hasDesc \in BOOLEAN :
          ExecWithOutput(h, cmd, ok, hasDesc)
    \/ \E h \in Handles, cmd \in Commands, ok \in BOOLEAN, hasDesc \in BOOLEAN :
          Exec(h, cmd, ok, hasDesc)
    \/ \E h \in Handles : SpawnErrorEvent(h)
    \/ \E h \in Handles : StdoutData(h)
    \/ \E h \in Handles : StderrData(h)
    \/ \E h \in Handles : ExitEvent(h)
    \/ \E h \in Handles : CloseEvent(h)
    \/ \E h \in Handles : DeadlineTimer(h)
    \/ \E h \in Handles : GraceTimer(h)
    \/ \E h \in Handles : ChildWriteStdout(h)
    \/ \E h \in Handles : ChildWriteStderr(h)
    \/ \E h \in Handles, code \in ExitCodes : ChildExit(h, code)
    \/ \E h \in Handles : ExternalSignal(h)
    \/ \E h \in Handles : DescendantExit(h)
    \/ Tick

Spec == Init /\ [][Next]_vars

\* ---- launches under every setting, the settings changing between them -------
AllSettings ==
    {Settings(k, f, w) : k \in KubeconfigSettings, f \in FluxPaths, w \in BOOLEAN}

InitEnv == InitWith(Handles, AllSettings)

NextEnv ==
    \/ \E h \in Handles, cmd \in Commands, ok \in BOOLEAN, hasDesc \in BOOLEAN :
          ExecWithOutput(h, cmd, ok, hasDesc)
    \/ \E h \in Handles, cmd \in Commands, ok \in BOOLEAN, hasDesc \in BOOLEAN :
          Exec(h, cmd, ok, hasDesc)
    \/ \E v \in KubeconfigSettings : SetKubeconfig(v)

SpecEnv == InitEnv /\ [][NextEnv]_vars

\* ---- several commands in flight ------------------------------------------------
\* every call site may launch, under a timeout of one second; the commands are
\* found, have no descendants and write nothing
InitConc ==
    /\ InitWith(Handles, {Settings("", "", FALSE)})
    /\ execTimeout = <<"1">>

NextConc ==
    \/ \E h \in Handles : ExecWithOutput(h, "flux", TRUE, FALSE)
    \/ \E h \in Handles : ExitEvent(h)
    \/ \E h \in Handles : CloseEvent(h)
    \/ \E h \in Handles : DeadlineTimer(h)
    \/ \E h \in Handles : GraceTimer(h)
    \/ \E h \in Handles, code \in ExitCodes : ChildExit(h, code)
    \/ \E h \in Handles : ExternalSignal(h)
    \/ Tick

SpecConc == InitConc /\ [][NextConc]_vars

\* ---- one command, launched through any of the three entry points ------------
NextProc ==
    \/ Next
    \/ \E h \in Handles, cmd \in Commands, ok \in BOOLEAN, hasDesc \in BOOLEAN :
          ExecProc(h, cmd, ok, hasDesc)

SpecProc == Init /\ [][NextProc]_vars

\* ---- telemetry calls, no command running -----------------------------------------
InitTelemetry ==
    /\ now = 0
    /\ callers = {}
    /\ host = Host(Settings("", "", FALSE))
    /\ execTimeout = <<>>
    /\ inv = [h \in Handles |-> IdleInv]
    /\ proc = [h \in Handles |-> NoProc]
    /\ gov = [h \in Handles |-> NoGov]
    /\ sink = <<>>
    /\ telemetry \in {NewTelemetry(mode, enabled) : mode \in ExtensionModes, enabled \in BOOLEAN}
    /\ flux = NoFlux
    /\ azure = NoAzure

NextTelemetry ==
    \/ \E eventName \in EventNames, payload \in {"undefined", "payload"} :
          Send(eventName, payload)
    \/ \E eventName \in ErrorEvents, error \in {"undefined", "error"} :
          SendError(eventName, error)
    \/ \E b \in BOOLEAN : SetTelemetryEnabled(b)
    \/ Dispose

SpecTelemetry == InitTelemetry /\ [][NextTelemetry]_vars

\* ---- two long-running commands in flight, writing to stdout -----------------
\* the call sites 1 and 2 launch in the same second, as the commands of a
\* Promise.all do (AzureTools.disableGitOps), in this order (call sites are
\* interchangeable); the commands end only by the signals of the governor
InitPair ==
    /\ InitWith({h \in Handles : h <= 2}, {Settings("", "", FALSE)})
    /\ execTimeout = <<"1">>

NextPair ==
    \/ \E h \in Handles :
          /\ \A g \in callers : h <= g
          /\ now = 0
          /\ ExecWithOutput(h, "flux", TRUE, FALSE)
    \/ \E h \in Handles : StdoutData(h)
    \/ \E h \in Handles : ExitEvent(h)
    \/ \E h \in Handles : CloseEvent(h)
    \/ \E h \in Handles : DeadlineTimer(h)
    \/ \E h \in Handles : GraceTimer(h)
    \/ \E h \in Handles : ChildWriteStdout(h)
    \/ Tick

SpecPair == InitPair /\ [][NextPair]_vars

\* ---- one command that writes nothing, the timeout setting changing at any moment
NextSettings ==
    \/ \E h \in Handles, cmd \in Commands, ok \in BOOLEAN, hasDesc \in BOOLEAN :
          ExecWithOutput(h, cmd, ok, hasDesc)
    \/ \E h \in Handles, cmd \in Commands, ok \in BOOLEAN, hasDesc \in BOOLEAN :
          Exec(h, cmd, ok, hasDesc)
    \/ \E h \in Handles : SpawnErrorEvent(h)
    \/ \E h \in Handles : ExitEvent(h)
    \/ \E h \in Handles : CloseEvent(h)
    \/ \E h \in Handles : DeadlineTimer(h)
    \/ \E h \in Handles : GraceTimer(h)
    \/ \E h \in Handles, code \in ExitCodes : ChildExit(h, code)
    \/ \E h \in Handles : ExternalSignal(h)
    \/ \E h \in Handles : DescendantExit(h)
    \/ \E v \in TimeoutSettings : SetExecTimeout(v)
    \/ Tick

SpecSettings == Init /\ [][NextSettings]_vars

\* ---- one command, the output channel failing at any moment --------------------
NextSink ==
    \/ Next
    \/ SinkBreaks

SpecSink == Init /\ [][NextSink]_vars

\* ---- installFluxCli on Windows ---------------------------------------------------
\* getLatestVersion, the callback of https.get: without a location header it
\* shows a message and returns, the promise stays as it is
OnResponse(f, location) ==
    IF location = NoLocation
    THEN [f EXCEPT !.request = "answered", !.shown = @ \cup {"No location in response"}]
    ELSE [f EXCEPT !.request = "answered", !.version = LatestVersionOf(location)]

\* getLatestVersion, the 'error' listener of the request
OnRequestError(f) ==
    [f EXCEPT !.request = "failed", !.shown = @ \cup {"err.message"}]

\* installFluxCli is called on Windows without gofish: it asks for the latest version
InstallFluxCli ==
    /\ flux.pc = "idle"
    /\ flux' = [flux EXCEPT !.pc = "getLatestVersion", !.request = "pending"]
    /\ UNCHANGED <<execVars, telemetry, azure>>

HttpsResponse ==
    /\ flux.request = "pending"
    /\ \E location \in Locations \cup {NoLocation} : flux' = OnResponse(flux, location)
    /\ UNCHANGED <<execVars, telemetry, azure>>

HttpsError ==
    /\ flux.request = "pending"
    /\ flux' = OnRequestError(flux)
    /\ UNCHANGED <<execVars, telemetry, azure>>

\* the promise of getLatestVersion is resolved: installFluxCli goes on
LatestVersionKnown ==
    /\ flux.pc = "getLatestVersion"
    /\ flux.version # Pending
    /\ flux' = InstallNext(flux, "getLatestVersion", flux.version = <<>>)
    /\ UNCHANGED <<execVars, telemetry, azure>>

\* what a step that succeeded has changed on the machine
EffectOf(step) ==
    IF step = "moveFile" THEN {"flux.exe moved"}
    ELSE IF step = "appendToPathEnvironmentVariableWindows" THEN {"PATH extended"}
    ELSE IF step = "globalState.update" THEN {"flux path stored", "success message"}
    ELSE {}

\* downloadFile, unzipFile, getAppdataPath, createDir, downloadFluxChecksums,
\* moveFile or appendToPathEnvironmentVariableWindows returns
HelperStep ==
    /\ flux.pc \in HelperSteps
    /\ \E ok \in BOOLEAN :
           flux' = [InstallNext(flux, flux.pc, ~ok) EXCEPT
                       !.effects = @ \cup (IF ok THEN EffectOf(flux.pc) ELSE {})]
    /\ UNCHANGED <<execVars, telemetry, azure>>

\* readFile returns: an error, or the contents of the checksums file
ReadFile ==
    /\ flux.pc = "readFile"
    /\ \/ flux' = InstallNext(flux, "readFile", TRUE)
       \/ \E entries \in SeqsUpTo(LineEntries \cup {BlankLine}, MaxLines) :
              flux' = [InstallNext(flux, "readFile", FALSE) EXCEPT
                          !.entries = entries, !.text = FileText(entries)]
    /\ UNCHANGED <<execVars, telemetry, azure>>

\* computeChecksumWindows returns: an error, or the SHA256 of the archive
ComputeChecksumWindows ==
    /\ flux.pc = "computeChecksumWindows"
    /\ \/ flux' = InstallNext(flux, "computeChecksumWindows", TRUE)
       \/ \E sum \in Checksums :
              flux' = [InstallNext(flux, "computeChecksumWindows", FALSE) EXCEPT
                          !.computed = sum]
    /\ UNCHANGED <<execVars, telemetry, azure>>

\* checkChecksum of the text read, the archive name and the checksum computed
CheckChecksumStep ==
    /\ flux.pc = "checkChecksum"
    /\ LET result == CheckChecksum(flux.text, flux.target, flux.computed)
       IN  flux' = [InstallNext(flux, "checkChecksum", ~result.succeeded) EXCEPT
                       !.check = result]
    /\ UNCHANGED <<execVars, telemetry, azure>>

\* the flux path is stored and the success message sent
UpdateGlobalState ==
    /\ flux.pc = "globalState.update"
    /\ flux' = [InstallNext(flux, "globalState.update", FALSE) EXCEPT
                   !.effects = @ \cup EffectOf("globalState.update")]
    /\ UNCHANGED <<execVars, telemetry, azure>>

NextInstall ==
    \/ InstallFluxCli
    \/ HttpsResponse
    \/ HttpsError
    \/ LatestVersionKnown
    \/ HelperStep
    \/ ReadFile
    \/ ComputeChecksumWindows
    \/ CheckChecksumStep
    \/ UpdateGlobalState

SpecInstall == Init /\ [][NextInstall]_vars

\* ---- checkChecksum on every checksums text ---------------------------------------
InitChecksum ==
    /\ now = 0
    /\ callers = {}
    /\ host = Host(Settings("", "", FALSE))
    /\ execTimeout = <<>>
    /\ inv = [h \in Handles |-> IdleInv]
    /\ proc = [h \in Handles |-> NoProc]
    /\ gov = [h \in Handles |-> NoGov]
    /\ sink = <<>>
    /\ telemetry = NewTelemetry("Production", TRUE)
    /\ azure = NoAzure
    /\ \E entries \in SeqsUpTo(LineEntries \cup {BlankLine}, MaxLines),
          targetFileName \in FileNames, computedChecksum \in Checksums :
           flux = [NoFlux EXCEPT !.pc = "checkChecksum", !.entries = entries,
                                 !.text = FileText(entries), !.target = targetFileName,
                                 !.computed = computedChecksum,
                                 !.ran = SubSeq(InstallSteps, 1, StepIndex("checkChecksum") - 1)]

NextChecksum == CheckChecksumStep

SpecChecksum == InitChecksum /\ [][NextChecksum]_vars

\* ---- AzureTools.disableGitOps -------------------------------------------------------
DisableGitOps ==
    /\ azure.pc = "idle"
    /\ azure' = [InvokeAzCommand(azure, FirstCommand) EXCEPT !.pc = "listFluxConfigurations"]
    /\ UNCHANGED <<execVars, telemetry, flux>>

\* invokeAzCommand: getAzureMetadata (or the user asked) returns; without metadata
\* the call returns undefined
AzureMetadata(c) ==
    /\ azure.cmd[c].state = "metadata"
    /\ \E found \in BOOLEAN :
           azure' = [azure EXCEPT !.cmd[c].state = IF found THEN "running" ELSE "undefined"]
    /\ UNCHANGED <<execVars, telemetry, flux>>

\* invokeAzCommand: shell.execWithOutput delivers its ShellResult
ExecDelivers(c) ==
    /\ azure.cmd[c].state = "running"
    /\ \E code \in ResultCodes :
           azure' = [azure EXCEPT !.cmd[c] = [state |-> "delivered", code |-> code]]
    /\ UNCHANGED <<execVars, telemetry, flux>>

\* invokeAzCommand: the promise of shell.execWithOutput is rejected
ExecRejects(c) ==
    /\ azure.cmd[c].state = "running"
    /\ azure' = [azure EXCEPT !.cmd[c].state = "rejected"]
    /\ UNCHANGED <<execVars, telemetry, flux>>

\* listFluxConfigurations returns and disableGitOps goes on to the flux deletes
ListReturns ==
    /\ azure.pc = "listFluxConfigurations"
    /\ Settled(azure.cmd[FirstCommand])
    /\ LET list == azure.cmd[FirstCommand]
       IN  IF list.state = "rejected" THEN azure' = [azure EXCEPT !.pc = "threw"]
           ELSE IF list.code # "0" THEN azure' = [azure EXCEPT !.pc = "returned"]
           ELSE \/ azure' = [azure EXCEPT !.pc = "returned"]
                \/ \E n \in 0..MaxConfigs :
                       azure' = [azure EXCEPT
                                    !.pc = "Promise.all", !.configs = n,
                                    !.cmd = [c \in AzCommands |->
                                                IF c \in 1..n THEN AwaitingMetadata ELSE @[c]]]
    /\ UNCHANGED <<execVars, telemetry, flux>>

\* Promise.all settles: fulfilled, the extension delete is invoked; rejected,
\* disableGitOps throws
PromiseAll ==
    /\ azure.pc = "Promise.all"
    /\ \/ /\ DeletesFulfilled(azure)
          /\ azure' = [InvokeAzCommand(azure, ExtensionCommand) EXCEPT !.pc = "extension"]
       \/ /\ \E c \in DeleteCommands(azure) : azure.cmd[c].state = "rejected"
          /\ azure' = [azure EXCEPT !.pc = "threw"]
    /\ UNCHANGED <<execVars, telemetry, flux>>

\* the extension delete settles and disableGitOps is over
ExtensionReturns ==
    /\ azure.pc = "extension"
    /\ Settled(azure.cmd[ExtensionCommand])
    /\ azure' = [azure EXCEPT !.pc = IF azure.cmd[ExtensionCommand].state = "rejected"
                                     THEN "threw" ELSE "returned"]
    /\ UNCHANGED <<execVars, telemetry, flux>>

NextAzure ==
    \/ DisableGitOps
    \/ \E c \in AzCommands : AzureMetadata(c)
    \/ \E c \in AzCommands : ExecDelivers(c)
    \/ \E c \in AzCommands : ExecRejects(c)
    \/ ListReturns
    \/ PromiseAll
    \/ ExtensionReturns

SpecAzure == Init /\ [][NextAzure]_vars

\* ---- AzureTools.createSourceGit2 on every choice of kustomization options ---------
OptionValues == {"", "./apps"}

InitCreate ==
    /\ now = 0
    /\ callers = {}
    /\ host = Host(Settings("", "", FALSE))
    /\ execTimeout = <<>>
    /\ inv = [h \in Handles |-> IdleInv]
    /\ proc = [h \in Handles |-> NoProc]
    /\ gov = [h \in Handles |-> NoGov]
    /\ sink = <<>>
    /\ telemetry = NewTelemetry("Production", TRUE)
    /\ flux = NoFlux
    /\ \E name \in OptionValues, path \in OptionValues, dependsOn \in OptionValues,
          timeout \in OptionValues, syncInterval \in OptionValues,
          retryInterval \in OptionValues, prune \in BOOLEAN, force \in BOOLEAN :
           azure = [NoAzure EXCEPT
                       !.args = SourceArgs("main", name, path, dependsOn, timeout,
                                           syncInterval, retryInterval, prune, force)]

\* createSourceGit2 builds the command and hands it to invokeAzCommand
CreateSourceGit2 ==
    /\ azure.pc = "idle"
    /\ azure' = [InvokeAzCommand(azure, FirstCommand) EXCEPT
                    !.pc = "createSourceGit2", !.command = CreateCommand(azure.args)]
    /\ UNCHANGED <<execVars, telemetry, flux>>

\* invokeAzCommand settles and createSourceGit2 is over
CreateReturns ==
    /\ azure.pc = "createSourceGit2"
    /\ Settled(azure.cmd[FirstCommand])
    /\ azure' = [azure EXCEPT !.pc = IF azure.cmd[FirstCommand].state = "rejected"
                                     THEN "threw" ELSE "returned"]
    /\ UNCHANGED <<execVars, telemetry, flux>>

NextCreate ==
    \/ CreateSourceGit2
    \/ AzureMetadata(FirstCommand)
    \/ ExecDelivers(FirstCommand)
    \/ ExecRejects(FirstCommand)
    \/ CreateReturns

SpecCreate == InitCreate /\ [][NextCreate]_vars

\* ---- observations used by the properties -----------------------------------
\* everything the handle will ever do has been done
Quiescent(h) == Invoked(h) /\ proc[h].closed /\ gov[h].timers = {}

\* the root process was killed by a signal the governor sent
KilledByGovernor(h) == proc[h].killer = "governor" /\ proc[h].osSignal # "null"

\* the root process ended by itself with this code
ExitedWith(h, code) == proc[h].root = "reaped" /\ proc[h].osCode = code

RECURSIVE SinkText(_, _, _)
\* the concatenation, in delivery order, of the pushes of one source of one handle
SinkText(pushes, h, src) ==
    IF pushes = <<>> THEN <<>>
    ELSE (IF Head(pushes).h = h /\ Head(pushes).src = src THEN Head(pushes).text ELSE <<>>)
         \o SinkText(Tail(pushes), h, src)

\* ---- properties -----------------------------------------------------------

\* C1: every invocation with a non-empty command delivers a ShellResult, whatever
\* happens to the process (here: once the child is closed and no timer is left,
\* the result has been delivered).
C1_EveryInvocationDelivers ==
    \A h \in Handles : Quiescent(h) => Delivered(h)

\* C2: the delivered exit code is null if and only if the governor force-killed
\* the handle.
C2_NullIffForceKilled ==
    \A h \in Handles :
        Delivered(h) => (inv[h].result.code = "null" <=> gov[h].killSent > 0)

\* C3: a command killed by the governor's signal yields, from both entry points,
\* exit code null and a stderr made of the timed-out marker followed by the stderr
\* text captured so far.
C3_TimeoutAnnotated ==
    \A h \in Handles :
        (Delivered(h) /\ KilledByGovernor(h)) =>
            /\ inv[h].result.code = "null"
            /\ inv[h].result.stderr =
                   TimedOutMarker(inv[h].cmd) \o StreamText("stderr", inv[h].errAtResult)

\* C4: with a timeout T > 0 and a process still running at T, the whole process
\* tree is gone and the result with exit code null is delivered by T + 2 seconds.
C4_DeadBySecondDeadline ==
    \A h \in Handles :
        (/\ gov[h].timeoutSeconds > 0
         /\ gov[h].runningAtDeadline
         /\ now > gov[h].launchedAt + gov[h].timeoutSeconds + GraceSeconds) =>
            /\ proc[h].root # "running"
            /\ proc[h].desc # "running"
            /\ Delivered(h)
            /\ inv[h].result.code = "null"

\* C5: once the grace window has ended, no process of the timed-out tree is alive:
\* the forceful kill reaches every survivor, also a descendant that outlived its root.
C5_NoSurvivorAfterGrace ==
    \A h \in Handles :
        gov[h].graceFired => (proc[h].root # "running" /\ proc[h].desc # "running")

\* C6: a failed spawn is reported as a ShellResult with a non-zero, non-null exit
\* code and a non-empty stderr.
C6_SpawnFailureReported ==
    \A h \in Handles :
        (proc[h].root = "failed" /\ proc[h].closed) =>
            /\ Delivered(h)
            /\ inv[h].result.code \notin {"0", "null"}
            /\ inv[h].result.stderr # <<>>

\* C7: a command that exits with code 0 yields exit code 0 and a stdout equal to
\* the concatenation of every stdout chunk the child wrote, under every
\* interleaving of the data events and the exit event.
C7_FullStdoutOnSuccess ==
    \A h \in Handles :
        (Delivered(h) /\ ExitedWith(h, "0")) =>
            /\ inv[h].result.code = "0"
            /\ inv[h].result.stdout = StreamText("stdout", proc[h].outWritten)

\* C8: for execWithOutput, the stdout chunks pushed to the sink, concatenated in
\* delivery order, equal the stdout of the delivered ShellResult.
C8_SinkEqualsResult ==
    \A h \in Handles :
        (inv[h].kind = "execWithOutput" /\ Delivered(h) /\ proc[h].closed) =>
            SinkText(sink, h, "stdout") = inv[h].result.stdout

\* C9: a command that exits with a non-zero code yields exactly that code and a
\* stderr equal to the concatenation of the stderr chunks received, unannotated
\* (for exec: of all the stderr chunks the child wrote).
C9_FailurePassedThrough ==
    \A h \in Handles :
        (Delivered(h) /\ \E code \in ExitCodes \ {"0"} : ExitedWith(h, code)) =>
            /\ inv[h].result.code = proc[h].osCode
            /\ inv[h].result.stderr = StreamText("stderr", inv[h].errAtResult)
            /\ inv[h].kind = "exec" =>
                   inv[h].result.stderr = StreamText("stderr", proc[h].errWritten)

C9_Witness ==
    \E h \in Handles :
        /\ inv[h].kind = "execWithOutput" /\ Delivered(h) /\ ExitedWith(h, "1")
        /\ inv[h].result.stderr # <<>>

\* C10: an invocation spawns at most one process and its promise is resolved at
\* most once; a delivered result never changes afterwards.
C10_OneResultForEver ==
    /\ [](\A h \in Handles : inv[h].spawns <= 1 /\ inv[h].resolves <= 1)
    /\ [][\A h \in Handles : Delivered(h) => inv'[h].result = inv[h].result]_vars

C10_Witness ==
    \E h \in Handles :
        /\ Delivered(h)
        /\ inv[h].kind = "execWithOutput"
        /\ inv[h].outRecv > inv[h].outAtResult
        /\ inv[h].errRecv > inv[h].errAtResult
        /\ gov[h].timeoutSeconds > 0 /\ gov[h].timers = {} /\ gov[h].termSent = 0


\* C11: the governor sends no signal for a handle that has reached Exited, also
\* when the process died of a signal the governor did not send.
C11_NoSignalAfterExited ==
    \A h \in Handles : gov[h].lateSignals = 0

\* C12: a handle that exits before its deadline has no timer pending from the
\* moment Exited is reached.
C12_TimerCancelledOnExit ==
    \A h \in Handles :
        (Exited(h) /\ gov[h].termSent = 0) => gov[h].timers = {}

ListedEdges ==
    {<<"None", "Running">>,
     <<"Running", "GracefullyTerminating">>,
     <<"GracefullyTerminating", "ForceKilled">>,
     <<"ForceKilled", "Exited">>,
     <<"Running", "Exited">>}

\* a step changes the state of handle h along one of these edges, and enters
\* GracefullyTerminating and ForceKilled only in a timer callback of the governor
StepAlong(h, edges) ==
    LET from == StateOf(proc[h], gov[h])
        to == StateOf(proc'[h], gov'[h])
    IN  from # to =>
            /\ <<from, to>> \in edges
            /\ to \in {"GracefullyTerminating", "ForceKilled"} =>
                   gov'[h].timers # gov[h].timers

\* C13 as claimed: every state change is Running -> GracefullyTerminating,
\* GracefullyTerminating -> ForceKilled, ForceKilled -> Exited or Running -> Exited.
C13_OnlyListedEdges ==
    [][\A h \in Handles : StepAlong(h, ListedEdges)]_vars

\* C13 as amended: the edges above and GracefullyTerminating -> Exited (the process
\* ends within the grace window); GracefullyTerminating and ForceKilled are entered
\* only by the governor, ForceKilled only from GracefullyTerminating.
C13_EdgesWithGraceExit ==
    [][\A h \in Handles :
          StepAlong(h, ListedEdges \cup {<<"GracefullyTerminating", "Exited">>})]_vars

C13_Witness ==
    \E h \in Handles :
        /\ Exited(h) /\ proc[h].root = "reaped"
        /\ gov[h].termSent = 1 /\ gov[h].lateSignals = 0
        /\ gov[h].graceFired /\ gov[h].killSent = 0


\* C14: the forceful signal is sent only after the graceful one and exactly 2
\* seconds after it, whatever the configured timeout.
C14_KillTwoSecondsAfterTerm ==
    \A h \in Handles :
        gov[h].killSent > 0 =>
            /\ gov[h].termSent > 0
            /\ gov[h].killAt = gov[h].termAt + GraceSeconds

C14_Witness ==
    \E h \in Handles :
        /\ gov[h].killSent = 1 /\ gov[h].timeoutSeconds = 1
        /\ proc[h].osSignal = "SIGKILL"

\* C15: with the timeout 0 or absent no timer is started, no signal is sent and the
\* handle never enters GracefullyTerminating or ForceKilled.
C15_NoTimeoutNoGovernor ==
    \A h \in Handles :
        (Invoked(h) /\ gov[h].setting \in {<<>>, <<"0">>}) =>
            /\ gov[h].timers = {}
            /\ gov[h].termSent = 0 /\ gov[h].killSent = 0
            /\ StateOf(proc[h], gov[h]) \notin {"GracefullyTerminating", "ForceKilled"}

C15_Witness ==
    \E h \in Handles :
        /\ gov[h].setting = <<"0">>
        /\ proc[h].root = "running"
        /\ now = MaxTime


\* C17: launching a command leaves the environment of the extension process as it
\* was before the first launch.
C17_ParentEnvUnchanged ==
    host.env = InheritedEnv

\* the inherited environment with the overrides of these settings layered on top
LayeredEnv(settings) == ExecOpts(Host(settings))

\* C18: the environment handed to a child is the inherited environment with the
\* overrides in force at that launch, whatever was launched before.
C18_ChildEnvFromSettingsOnly ==
    \A h \in Handles :
        proc[h].root # "none" => proc[h].env = LayeredEnv(proc[h].launchSettings)

\* the pushes made for handle h
PushesOf(h) == {k \in 1..Len(sink) : sink[k].h = h}

\* C19: a failing push to the output channel neither prevents the launch nor the
\* delivery of the ShellResult once the process has exited.
C19_SinkFailureHarmless ==
    \A h \in Handles :
        inv[h].kind = "execWithOutput" /\ inv[h].cmd # "" =>
            /\ inv[h].spawns = 1
            /\ proc[h].root = "reaped" => Delivered(h)

\* C20: an empty command line is rejected at once: nothing is spawned, no timer is
\* started and nothing is pushed to the sink.
C20_EmptyCommandRejected ==
    \A h \in Handles :
        (Invoked(h) /\ inv[h].cmd = "") =>
            /\ inv[h].rejected
            /\ inv[h].spawns = 0
            /\ gov[h].timers = {} /\ gov[h].timeoutSeconds = 0
            /\ PushesOf(h) = {}

\* C16: the expiry of a deadline or grace timer of one handle leaves the process
\* tree, the buffers, the result and the timers of every other handle as they are.
C16_TimersTouchOwnHandleOnly ==
    [][\A h \in Handles :
          (DeadlineTimer(h) \/ GraceTimer(h)) =>
              \A g \in Handles \ {h} :
                  proc'[g] = proc[g] /\ inv'[g] = inv[g] /\ gov'[g] = gov[g]]_vars

\* C21: per handle the stdout chunks reach the sink in the order in which they were
\* received from the child, each exactly once, and likewise the stderr chunks.
C21_ChunksInOrderOnce ==
    \A h \in Handles :
        inv[h].kind = "execWithOutput" =>
            /\ SinkText(sink, h, "stdout") = StreamText("stdout", inv[h].outRecv)
            /\ SinkText(sink, h, "stderr") = StreamText("stderr", inv[h].errRecv)
            /\ Cardinality({k \in PushesOf(h) : sink[k].src \in {"stdout", "stderr"}})
                   = inv[h].outRecv + inv[h].errRecv

\* both streams delivered in full, a stderr chunk pushed between the stdout chunks
C21_Witness ==
    \E h \in Handles :
        /\ inv[h].outRecv = MaxChunks /\ inv[h].errRecv = MaxChunks
        /\ \E i, j, k \in PushesOf(h) :
              /\ i < j /\ j < k
              /\ sink[i].src = "stdout" /\ sink[j].src = "stderr" /\ sink[k].src = "stdout"

\* C22: per handle the graceful and the forceful signal are sent at most once each,
\* and a deadline that expires for a handle that has already exited starts no
\* further timer and settles nothing a second time.
C22_SignalsOnceAndInertAfterExit ==
    /\ [](\A h \in Handles : gov[h].termSent <= 1 /\ gov[h].killSent <= 1)
    /\ [][\A h \in Handles :
             (Exited(h) /\ DeadlineTimer(h)) =>
                 /\ gov'[h].timers \subseteq gov[h].timers
                 /\ inv'[h].resolves = inv[h].resolves]_vars

\* the stderr of the delivered result starts with the timed-out marker
Annotated(h) ==
    LET e == inv[h].result.stderr
        mk == TimedOutMarker(inv[h].cmd)
    IN  Len(e) >= Len(mk) /\ SubSeq(e, 1, Len(mk)) = mk

\* C27: a result is annotated as timed out only if a deadline was armed for the
\* handle and has expired.
C27_MarkerOnlyAfterDeadline ==
    \A h \in Handles :
        (Delivered(h) /\ Annotated(h)) =>
            /\ gov[h].timeoutSeconds # 0
            /\ \A t \in gov[h].timers : t.kind # "deadline"

\* C28: a signal is sent only under a positive timeout of T seconds and not before
\* T seconds after the launch.
C28_NoSignalBeforeDeadline ==
    \A h \in Handles :
        (gov[h].termSent > 0 \/ gov[h].killSent > 0) =>
            /\ gov[h].timeoutSeconds > 0
            /\ gov[h].termAt >= gov[h].launchedAt + gov[h].timeoutSeconds

\* C29: of the pushes made for one execWithOutput invocation the command echo is
\* the first and the newline of the exit handler the last, and no chunk is pushed
\* after the result was delivered.
C29_EchoFirstNewlineLast ==
    \A h \in Handles :
        inv[h].kind = "execWithOutput" =>
            /\ proc[h].root # "none" => \E k \in PushesOf(h) : sink[k].src = "command"
            /\ \A k, j \in PushesOf(h) :
                  /\ sink[k].src = "command" => k <= j
                  /\ sink[k].src = "newline" => j <= k
            /\ Delivered(h) =>
                  inv[h].outRecv = inv[h].outAtResult /\ inv[h].errRecv = inv[h].errAtResult

\* a process was spawned for handle h
Spawned(h) == proc[h].root \in {"running", "zombie", "reaped"}

\* C26: under a non-zero timeout of T seconds every spawned process got its
\* deadline timer at launch: none is still running, unsignalled, after T seconds.
C26_EverySpawnHasDeadline ==
    LET timeoutSeconds == ParseInt(execTimeout)
    IN  \A h \in Handles :
            (Spawned(h) /\ ~timeoutSeconds.nan /\ timeoutSeconds.val # 0) =>
                /\ gov[h].timeoutSeconds = timeoutSeconds.val
                /\ Cardinality({t \in gov[h].timers : t.kind = "deadline"}) <= 1
                /\ (/\ proc[h].root = "running"
                    /\ now > gov[h].launchedAt + Max(timeoutSeconds.val, 0)) =>
                       gov[h].termSent > 0

\* C30: the reporter is handed something only by a call made while the extension
\* runs in Production mode and the user's telemetry setting is enabled.
C30_ReportOnlyWhenAllowed ==
    [][telemetry'.reporter # telemetry.reporter =>
           (telemetry.extensionMode = "Production" /\ telemetry.isTelemetryEnabled)]_vars

\* an event was reported, telemetry was then disabled and a later call was dropped
C30_Witness ==
    /\ Len(telemetry.reporter) = 1
    /\ ~telemetry.isTelemetryEnabled
    /\ telemetry.calls = MaxCalls

\* C23: the timer callbacks of the governor leave every buffer, every result and
\* the sink as they are, and the data and exit handlers of one handle leave the
\* buffers and the result of every other handle as they are.
C23_BuffersOwnedByHandle ==
    [][\A h \in Handles :
          /\ (DeadlineTimer(h) \/ GraceTimer(h)) => (inv' = inv /\ sink' = sink)
          /\ (StdoutData(h) \/ StderrData(h) \/ ExitEvent(h) \/ CloseEvent(h)) =>
                 \A g \in Handles \ {h} : inv'[g] = inv[g]]_vars

\* one command was force-killed after it had written, the other one is running and
\* has output buffered
C23_Witness ==
    \E h, g \in Handles :
        /\ h # g
        /\ gov[h].killSent = 1 /\ inv[h].outRecv > 0 /\ Delivered(h)
        /\ proc[g].root = "running" /\ inv[g].outRecv > 0 /\ inv[g].stdout # <<>>

\* C24: once the graceful signal was sent the grace timer runs to its end, where
\* the forceful signal is sent if the process is still running and is not sent if
\* the process has exited.
C24_GraceDecidedByExitOnly ==
    /\ [](\A h \in Handles :
             gov[h].termSent > 0 =>
                 (gov[h].graceFired \/ \E t \in gov[h].timers : t.kind = "grace"))
    /\ [][\A h \in Handles :
             GraceTimer(h) =>
                 /\ proc[h].root = "running" => gov'[h].killSent = gov[h].killSent + 1
                 /\ Exited(h) => gov'[h].killSent = gov[h].killSent]_vars

\* the timers setExecTimeoutKill arms at this moment under the setting v
ArmedUnder(v) ==
    LET timeoutSeconds == ParseInt(v)
    IN  IF timeoutSeconds.nan \/ timeoutSeconds.val = 0 THEN {}
        ELSE {[kind |-> "deadline", due |-> now + Max(timeoutSeconds.val, 0)]}

\* C25: a launch arms the deadline under the value the setting has at that moment;
\* a change of the setting leaves the timers of a command in flight as they are,
\* and a deadline that expires for a running process sends the graceful signal
\* whatever the setting is by then.
C25_TimeoutReadAtSpawn ==
    [][\A h \in Handles :
          /\ (h \in callers /\ h \notin callers' /\ proc'[h].root # "none") =>
                 gov'[h].timers = ArmedUnder(execTimeout)
          /\ execTimeout' # execTimeout => gov'[h] = gov[h]
          /\ (DeadlineTimer(h) /\ proc[h].root = "running") =>
                 gov'[h].termSent = gov[h].termSent + 1]_vars

\* the timeout was switched off while the command was in flight: the deadline armed
\* under the old value is still pending
C25_Witness ==
    \E h \in Handles :
        /\ gov[h].setting = <<"1">> /\ execTimeout = <<"0">>
        /\ proc[h].root = "running" /\ gov[h].termSent = 0
        /\ gov[h].timers = {[kind |-> "deadline", due |-> gov[h].launchedAt + 1]}

\* the step has run in this installation
Ran(step) == \E i \in DOMAIN flux.ran : flux.ran[i] = step

\* the checksums file read has a line for this file; one with this checksum
NamedInFile(name) == \E i \in DOMAIN flux.entries : flux.entries[i].name = name
ListedInFile(name, sum) ==
    \E i \in DOMAIN flux.entries : flux.entries[i] = [sum |-> sum, name |-> name]

\* C35: checkChecksum succeeds exactly when some line of the checksums text gives
\* the computed checksum for the target file; it reports "File not found" when no
\* line names the file and "Checksum mismatch" when the file is named but with
\* another checksum, also when the text names the file on several lines.
C35_SucceedsIffSomeLineMatches ==
    Ran("checkChecksum") =>
        /\ flux.check.succeeded <=> ListedInFile(flux.target, flux.computed)
        /\ ~NamedInFile(flux.target) =>
               flux.check = Failed("File not found in the checksums.txt file")
        /\ (NamedInFile(flux.target) /\ ~ListedInFile(flux.target, flux.computed)) =>
               flux.check = Failed("Checksum mismatch for the file")

\* C31: the executable is moved, the PATH extended, the flux path stored and the
\* success message sent only after checkChecksum found the computed checksum of the
\* archive equal to an entry of the checksums file for that archive; the steps run in
\* the order of the code, and a step that failed is the last step that ran.
C31_InstalledOnlyAfterChecksumMatch ==
    /\ flux.effects # {} =>
           /\ Ran("checkChecksum") /\ flux.check.succeeded
           /\ ListedInFile(GitHubAssetArchiveName, flux.computed)
    /\ \A i \in DOMAIN flux.ran : flux.ran[i] = InstallSteps[i]
    /\ flux.failedAt # "none" =>
           flux.pc = "returned" /\ flux.ran[Len(flux.ran)] = flux.failedAt
    /\ (Ran("checkChecksum") /\ ~flux.check.succeeded) =>
           flux.pc = "returned" /\ flux.ran[Len(flux.ran)] = "checkChecksum"

\* the installation went through: all four effects, after a checksum that matched
C31_Witness ==
    /\ flux.pc = "returned" /\ flux.failedAt = "none"
    /\ flux.effects =
           {"flux.exe moved", "PATH extended", "flux path stored", "success message"}
    /\ flux.check = Succeeded

\* C32: whatever the HTTPS request comes to (a location header, an answer without
\* one, a network error), the promise of getLatestVersion is resolved, so that
\* installFluxCli goes on and returns.
C32_LatestVersionResolves ==
    flux.request \in {"answered", "failed"} => flux.version # Pending

\* C33: the extension delete is invoked only when every flux delete has come back
\* (with its ShellResult, or without a command for want of metadata); and when the
\* list command did not end with exit code 0 (another code, null, no result, a
\* rejection), no delete of either kind is invoked.
C33_ExtensionDeletedAfterFluxDeletes ==
    /\ azure.cmd[ExtensionCommand].state # "none" =>
           \A c \in DeleteCommands(azure) : azure.cmd[c].state \in {"delivered", "undefined"}
    /\ (Settled(azure.cmd[FirstCommand]) /\ azure.cmd[FirstCommand].code # "0") =>
           \A c \in AzCommands \ {FirstCommand} : azure.cmd[c].state = "none"

\* two flux deletes ran side by side and both delivered before the extension delete
\* was started
C33_Witness ==
    /\ azure.configs >= 2
    /\ \A c \in DeleteCommands(azure) : azure.cmd[c].state = "delivered"
    /\ azure.cmd[ExtensionCommand].state = "running"

\* the keys of the --kustomization group
KustomizationKeys ==
    {"name=", "path=", "depends_on=", "timeout=", "sync_interval=", "retry_interval=",
     "prune=", "force="}
\* the places of the command where this piece stands
PlacesOf(piece) == {i \in DOMAIN azure.command : azure.command[i] = piece}
BoolText(b) == IF b THEN "true" ELSE "false"

\* C34: the command of createSourceGit2 has a --kustomization group only when a
\* kustomization option is supplied; in the group every key stands at most once
\* and after a space, prune= carries kustomizationPrune and force= carries
\* kustomizationForce, for true and for false.
C34_KustomizationGroupWellFormed ==
    (azure.pc # "idle" /\ PlacesOf("--kustomization") # {}) =>
        /\ \/ \E k \in {"kustomizationName", "kustomizationPath", "kustomizationDependsOn",
                         "kustomizationTimeout", "kustomizationSyncInterval",
                         "kustomizationRetryInterval"} : azure.args[k] # ""
           \/ azure.args.kustomizationPrune
           \/ azure.args.kustomizationForce
        /\ \A k \in KustomizationKeys :
               /\ Cardinality(PlacesOf(k)) <= 1
               /\ \A i \in PlacesOf(k) : i > 1 /\ azure.command[i - 1] = " "
        /\ \E i \in PlacesOf("prune=") :
               azure.command[i + 1] = BoolText(azure.args.kustomizationPrune)
        /\ \E i \in PlacesOf("force=") :
               azure.command[i + 1] = BoolText(azure.args.kustomizationForce)

====
